---- MODULE Spec2Model ----
(***************************************************************************)
(* A model of airq's src/app.py: the device registry (table devices), the  *)
(* measurement store (table measurements), the background poller           *)
(* (data_fetcher), its one-time start (start_background_thread) and the    *)
(* device-management commands (add / remove / activate / deactivate).      *)
(*                                                                         *)
(* Processes: one request thread per web entry point that calls            *)
(* start_background_thread, one data_fetcher thread per thread that such a *)
(* call creates, and the `flask device ...` commands, which are separate   *)
(* operating-system processes working on the same SQLite file.             *)
(*                                                                         *)
(* Init is the process once its first start_background_thread has         *)
(* returned (at import under gunicorn or `python app.py`): the flag is     *)
(* True and one fetcher thread runs. Registered is a process under         *)
(* `flask run`, where line 823 skips the import-time start and the first   *)
(* requests make the call.                                                 *)
(***************************************************************************)
EXTENDS Integers, Sequences, FiniteSets, TLC

\* ------------------------------------------------------------- bounds
MaxId == 2      \* device ids range over 1..MaxId
MaxMeas == 2    \* rows the measurements table can hold before inserts fail
MaxTick == 1    \* wall-clock readings range over 0..MaxTick sub-second ticks
MaxOffset == 1  \* timezone offsets are -MaxOffset, 0 and +MaxOffset seconds
SubSec == 2     \* sub-second ticks per second (the precision strftime drops)
MaxSecond == 1  \* stored timestamps of a queried table range over seconds 0..MaxSecond

\* -------------------------------------------------- program constants
FETCH_INTERVAL == 60
MIN_HOURS == 1
MAX_HOURS == 168
MIN_DEVICE_ID == 1
SECONDS_PER_HOUR == 3600

\* ------------------------------------------------------------ domains
Ids == 1..MaxId
Ticks == 0..MaxTick
Offsets == {0 - MaxOffset, 0, MaxOffset}
\* The two routes whose handlers call start_background_thread; a fetcher
\* thread is named after the request thread that created it.
Callers == {"dashboard", "health_check"}
\* Two concurrent `flask device add` processes.
Adders == {"add1", "add2"}
Providers == {"airgradient", "other"}
Seconds == 0..MaxSecond
\* A request without the optional <int:device_id> part: device_id=None.
NoDeviceId == 0 - 1
\* The device_id of a request: absent, or what Flask's int converter lets
\* through (no negative number).
DeviceArgs == {NoDeviceId} \cup 0..(MaxId + 1)
\* The hours of a history request, around both ends of the accepted range.
HourArgs == {MIN_HOURS - 1, MIN_HOURS, MAX_HOURS, MAX_HOURS + 1}
\* datetime.utcnow() of a history request, in sub-second ticks: from one hour
\* after second 0 on, so that `since` of a one-hour window falls before, on
\* and between the stored seconds.
QueryClock ==
    {SECONDS_PER_HOUR * SubSec + k : k \in 0..(MaxSecond * SubSec + 1)}

\* The "timestamp" of the provider's JSON: an ISO-8601 string giving a local
\* reading and its offset ("iso"), no such key ("absent"), or a string that
\* fromisoformat rejects ("malformed").
IsoTimestamps == [kind : {"iso"}, local : Ticks, off : Offsets]
NoTimestamp == [kind |-> "absent", local |-> 0, off |-> 0]
MalformedTimestamp == [kind |-> "malformed", local |-> 0, off |-> 0]
Timestamps == IsoTimestamps \cup {NoTimestamp, MalformedTimestamp}

\* What one GET of the provider's endpoint can end in: a RequestException
\* ("timeout"), a body that is no JSON object ("not_json_object"), or a JSON
\* object ("json").
Responses ==
    {[kind |-> "timeout", timestamp |-> NoTimestamp],
     [kind |-> "not_json_object", timestamp |-> NoTimestamp]}
        \cup [kind : {"json"}, timestamp : Timestamps]

VARIABLES
    devices,        \* table devices: id -> [provider, active]
    measurements,   \* table measurements: sequence of rows, in insert order
    background_thread_started,  \* the module flag _background_thread_started
    reqPc,          \* per request thread: where it is in start_background_thread
    threadsCreated, \* number of data_fetcher threads ever started
    fPc,            \* per fetcher thread: "none" (never created), "top", "loop", "sleep"
    devs,           \* per fetcher thread: the list get_configured_devices returned
    idx,            \* per fetcher thread: position of the for loop in devs
    sleepFor,       \* per fetcher thread: the argument of the time.sleep in progress
    tickResult,     \* per fetcher thread: "none", "running", or how the tick ended
    tickActive,     \* per fetcher thread: ids that were active when the tick read the registry
    tickStored,     \* per fetcher thread: ids whose reading this tick appended
    tickFailed,     \* per fetcher thread: ids this tick attempted without appending
    tickCalls,      \* per fetcher thread: calls of store_measurement this tick made
    addPc,          \* per add process: "idle", "insert" (id computed, INSERT pending)
    addId,          \* per add process: the device_id it computed
    lastAdded,      \* id the most recent committed add inserted (0: none yet)
    overtaken,      \* add processes at the INSERT whose id another add inserted meanwhile
    reply           \* the API request or add command under observation and its outcome

vars ==
    <<devices, measurements, background_thread_started, reqPc, threadsCreated,
      fPc, devs, idx, sleepFor, tickResult, tickActive, tickStored, tickFailed,
      tickCalls, addPc, addId, lastAdded, overtaken, reply>>

registryVars == <<devices, addPc, addId, lastAdded, overtaken>>
startVars == <<background_thread_started, reqPc, threadsCreated>>
tickVars ==
    <<devs, idx, sleepFor, tickResult, tickActive, tickStored, tickFailed,
      tickCalls>>
fetcherVars == <<fPc, tickVars>>

\* ------------------------------------------------------------ helpers
Max(S) == CHOOSE m \in S : \A x \in S : x <= m
Min(S) == CHOOSE m \in S : \A x \in S : m <= x

\* ------------------------------------------------------------ registry

\* (mutant) ORDER BY id DESC.
RECURSIVE OrderByIdDesc(_)
OrderByIdDesc(S) ==
    IF S = {} THEN <<>>
    ELSE LET m == CHOOSE x \in S : \A y \in S : y <= x
         IN <<m>> \o OrderByIdDesc(S \ {m})

\* ORDER BY id: the ids of S as a sequence in ascending order.
RECURSIVE OrderById(_)
OrderById(S) ==
    IF S = {} THEN <<>>
    ELSE LET m == Min(S) IN <<m>> \o OrderById(S \ {m})

\* (mutant) the query without WHERE active = 1.
get_all_devices(table) ==
    LET ordered == OrderById(DOMAIN table)
    IN [i \in 1..Len(ordered) |->
            [id |-> ordered[i], provider |-> table[ordered[i]].provider]]

\* SELECT id, name, provider, config FROM devices WHERE active = 1 ORDER BY id
get_configured_devices(table) ==
    LET active == {d \in DOMAIN table : table[d].active}
        ordered == OrderById(active)
    IN [i \in 1..Len(ordered) |->
            [id |-> ordered[i], provider |-> table[ordered[i]].provider]]

\* The factory: an adapter for a known provider, a ValueError otherwise.
create_device_adapter(device_config) ==
    [raised |-> device_config.provider # "airgradient",
     device_id |-> device_config.id]

\* AirGradientAdapter.fetch_data on one response of the endpoint: None on a
\* RequestException, the standardized dict on a JSON object; any other
\* exception (data.get on a body that is no object) leaves the method.
fetch_data(adapter, response) ==
    [kind |-> IF response.kind = "timeout" THEN "none"
              ELSE IF response.kind = "not_json_object" THEN "raised"
              ELSE "data",
     device_id |-> adapter.device_id,
     timestamp |-> response.timestamp]

\* ------------------------------------------------------------- store

\* datetime.fromisoformat(s.replace("Z", "+00:00")).replace(tzinfo=None)
\*     .strftime("%Y-%m-%d %H:%M:%S"):
\* the parsed local reading with its offset dropped, cut to whole seconds.
format_provider_timestamp(ts) == ts.local \div SubSec

\* datetime.utcnow().strftime("%Y-%m-%d %H:%M:%S")
format_utcnow(now) == now \div SubSec

\* (mutant) INSERT OR REPLACE under UNIQUE(device_id): the device's stored
\* row is deleted and the new reading inserted under a new id.
insert_or_replace_measurement(table, device_id, timestamp_str) ==
    Append(SelectSeq(table, LAMBDA row : row.device_id # device_id),
           [id |-> Len(table) + 1, device_id |-> device_id,
            timestamp |-> timestamp_str])

\* (mutant) INSERT OR IGNORE under UNIQUE(device_id, timestamp): a reading
\* equal to a stored one adds no row.
insert_unless_duplicate(table, device_id, timestamp_str) ==
    IF \E i \in 1..Len(table) :
           table[i].device_id = device_id /\ table[i].timestamp = timestamp_str
    THEN table
    ELSE Append(table,
                [id |-> Len(table) + 1, device_id |-> device_id,
                 timestamp |-> timestamp_str])

\* INSERT INTO measurements: id is AUTOINCREMENT, one more than the largest
\* id the table ever held (no row is ever deleted, so the number of rows).
insert_measurement(table, device_id, timestamp_str) ==
    Append(table,
           [id |-> Len(table) + 1, device_id |-> device_id,
            timestamp |-> timestamp_str])

\* (mutant) the INSERT taking effect although SQLite raised on the commit.
store_measurement_half_done(table, data, now, dbError) ==
    IF data.kind = "none" THEN [raised |-> FALSE, table |-> table]
    ELSE IF data.timestamp.kind = "malformed"
    THEN [raised |-> TRUE, table |-> table]
    ELSE [raised |-> FALSE,
          table |-> insert_measurement(
                        table, data.device_id,
                        IF data.timestamp.kind = "iso"
                        THEN format_provider_timestamp(data.timestamp)
                        ELSE format_utcnow(now))]

\* store_measurement(data) with the clock reading `now`; dbError says whether
\* SQLite raises sqlite3.Error on the INSERT (caught and logged). Gives the
\* table afterwards, and whether the ValueError of fromisoformat left the
\* function.
store_measurement(table, data, now, dbError) ==
    IF data.kind = "none" THEN [raised |-> FALSE, table |-> table]
    ELSE IF data.timestamp.kind = "malformed"
    THEN [raised |-> TRUE, table |-> table]
    ELSE LET timestamp_str ==
                 IF data.timestamp.kind = "iso"
                 THEN format_provider_timestamp(data.timestamp)
                 ELSE format_utcnow(now)
         IN [raised |-> FALSE,
             table |-> IF dbError THEN table
                       ELSE insert_measurement(table, data.device_id,
                                               timestamp_str)]

\* ------------------------------------------- start_background_thread

\* if not _background_thread_started:
StartCheck(r) ==
    /\ reqPc[r] = "idle"
    /\ reqPc' = [reqPc EXCEPT ![r] =
                    IF background_thread_started THEN "idle" ELSE "init"]
    /\ UNCHANGED <<background_thread_started, threadsCreated>>
    /\ UNCHANGED <<registryVars, fetcherVars, measurements>>
    /\ UNCHANGED reply

\* init_database(); fetcher_thread = Thread(target=data_fetcher); .start()
StartThread(r) ==
    /\ reqPc[r] = "init"
    /\ reqPc' = [reqPc EXCEPT ![r] = "started"]
    /\ fPc' = [fPc EXCEPT ![r] = "top"]
    /\ threadsCreated' = threadsCreated + 1
    /\ UNCHANGED <<background_thread_started, tickVars, registryVars,
                   measurements>>
    /\ UNCHANGED reply

\* _background_thread_started = True
SetStarted(r) ==
    /\ reqPc[r] = "started"
    /\ reqPc' = [reqPc EXCEPT ![r] = "idle"]
    /\ background_thread_started' = TRUE
    /\ UNCHANGED <<threadsCreated, registryVars, fetcherVars, measurements>>
    /\ UNCHANGED reply

\* ------------------------------------------------------- data_fetcher

\* time.sleep(FETCH_INTERVAL), whatever the tick ended in.
SleepInterval(result) == FETCH_INTERVAL

\* (mutant) the outer except missing: a registry fault ends the thread.
AfterTickFaultExits(result) == IF result = "fault" THEN "exited" ELSE "sleep"

\* Where the while loop is after a tick that ended in `result`: both excepts
\* only log, so always in time.sleep.
AfterTick(result) == "sleep"

\* (mutant) the try/except around the for instead of inside it: an exception
\* ends the loop.
LoopStopsOnException(outcome) == outcome # "raised"

\* Whether the for loop goes on to the next device after a pass that ended in
\* `outcome`: the try/except is inside the for body, so always.
LoopContinues(outcome) == TRUE

\* (mutant) the list read once and kept for the later ticks.
TickListCached(table, previous) ==
    IF previous # <<>> THEN previous ELSE get_configured_devices(table)

\* devices = get_configured_devices(): each pass of the while loop reads the
\* registry afresh; the list of the previous pass is overwritten.
TickList(table, previous) == get_configured_devices(table)

EndTick(t, result) ==
    /\ tickResult' = [tickResult EXCEPT ![t] = result]
    /\ fPc' = [fPc EXCEPT ![t] = AfterTick(result)]
    /\ sleepFor' = [sleepFor EXCEPT ![t] = SleepInterval(result)]

\* devices = get_configured_devices() at the top of a tick. registryError
\* says whether the read raises (caught by the outer except).
DataFetcherRead(t, registryError) ==
    /\ fPc[t] = "top"
    /\ tickStored' = [tickStored EXCEPT ![t] = {}]
    /\ tickFailed' = [tickFailed EXCEPT ![t] = {}]
    /\ tickCalls' = [tickCalls EXCEPT ![t] = 0]
    /\ idx' = [idx EXCEPT ![t] = 1]
    /\ IF registryError
       THEN /\ UNCHANGED devs
            /\ tickActive' = [tickActive EXCEPT ![t] = {}]
            /\ EndTick(t, "fault")
       ELSE LET list == TickList(devices, devs[t]) IN
            /\ devs' = [devs EXCEPT ![t] = list]
            /\ tickActive' = [tickActive EXCEPT ![t] =
                                 {d \in DOMAIN devices : devices[d].active}]
            /\ IF list = <<>>
               THEN EndTick(t, "empty")
               ELSE /\ tickResult' = [tickResult EXCEPT ![t] = "running"]
                    /\ fPc' = [fPc EXCEPT ![t] = "loop"]
                    /\ UNCHANGED sleepFor
    /\ UNCHANGED <<registryVars, startVars, measurements>>
    /\ UNCHANGED reply

\* (mutant) the pass without `if data:`, store_measurement called with
\* whatever fetch_data returned (it returns at once on None).
ProcessDeviceAlwaysStores(table, device_config, response, now, dbError) ==
    LET adapter == create_device_adapter(device_config)
        data == fetch_data(adapter, response)
    IN IF adapter.raised \/ data.kind = "raised"
       THEN [raised |-> TRUE, table |-> table, store_calls |-> 0]
       ELSE LET stored == store_measurement(table, data, now, dbError)
            IN [raised |-> stored.raised, table |-> stored.table,
                store_calls |-> 1]

\* What one pass of the for body does to the measurements table: the table
\* afterwards, whether an exception reached the inner except, and how many
\* times store_measurement was called (`if data:` guards the call).
ProcessDevice(table, device_config, response, now, dbError) ==
    LET adapter == create_device_adapter(device_config)
        data == fetch_data(adapter, response)
    IN IF adapter.raised \/ data.kind = "raised"
       THEN [raised |-> TRUE, table |-> table, store_calls |-> 0]
       ELSE IF data.kind = "none"
       THEN [raised |-> FALSE, table |-> table, store_calls |-> 0]
       ELSE LET stored == store_measurement(table, data, now, dbError)
            IN [raised |-> stored.raised, table |-> stored.table,
                store_calls |-> 1]

\* The clock is read only to stamp a measurement that carries no timestamp.
ClockReadings(response) ==
    IF response.kind = "json" /\ response.timestamp.kind = "absent"
    THEN Ticks ELSE {0}

\* SQLite is reached only with a measurement whose timestamp parsed.
DbVerdicts(response) ==
    IF response.kind = "json" /\ response.timestamp.kind # "malformed"
    THEN BOOLEAN ELSE {FALSE}

\* One pass of `for device_config in devices`, with the endpoint's response,
\* the clock and SQLite's verdict as inputs. A full table makes SQLite fail.
DataFetcherDevice(t, response, now, dbError) ==
    /\ fPc[t] = "loop"
    /\ (Len(measurements) >= MaxMeas /\ TRUE \in DbVerdicts(response)) => dbError
    /\ LET device_config == devs[t][idx[t]]
           after == ProcessDevice(measurements, device_config, response, now, dbError)
           outcome == IF after.raised THEN "raised"
                      ELSE IF after.table = measurements THEN "nothing"
                      ELSE "stored"
       IN /\ measurements' = after.table
          /\ tickStored' = [tickStored EXCEPT ![t] =
                IF outcome = "stored" THEN @ \cup {device_config.id} ELSE @]
          /\ tickFailed' = [tickFailed EXCEPT ![t] =
                IF outcome = "stored" THEN @ ELSE @ \cup {device_config.id}]
          /\ tickCalls' = [tickCalls EXCEPT ![t] = @ + after.store_calls]
          /\ idx' = [idx EXCEPT ![t] = @ + 1]
          /\ IF idx[t] = Len(devs[t]) \/ ~LoopContinues(outcome)
             THEN EndTick(t, "done")
             ELSE UNCHANGED <<fPc, tickResult, sleepFor>>
    /\ UNCHANGED <<devs, tickActive, registryVars, startVars>>
    /\ UNCHANGED reply

\* time.sleep returns and the while loop starts its next pass.
DataFetcherWake(t) ==
    /\ fPc[t] = "sleep"
    /\ fPc' = [fPc EXCEPT ![t] = "top"]
    /\ sleepFor' = [sleepFor EXCEPT ![t] = 0]
    /\ tickResult' = [tickResult EXCEPT ![t] = "none"]
    /\ idx' = [idx EXCEPT ![t] = 1]
    /\ UNCHANGED devs
    /\ tickActive' = [tickActive EXCEPT ![t] = {}]
    /\ tickStored' = [tickStored EXCEPT ![t] = {}]
    /\ tickFailed' = [tickFailed EXCEPT ![t] = {}]
    /\ tickCalls' = [tickCalls EXCEPT ![t] = 0]
    /\ UNCHANGED <<registryVars, startVars, measurements>>
    /\ UNCHANGED reply

\* ------------------------------------------------------ query facade

\* No request yet.
NoReply ==
    [kind |-> "none", hours |-> 0, device_id |-> NoDeviceId, now |-> 0,
     status |-> 0, queried |-> FALSE, rows |-> <<>>]

\* FROM measurements m JOIN devices d ON m.device_id = d.id: the positions of
\* the rows whose device has a row in devices.
JoinedRows(deviceTable, table) ==
    {i \in 1..Len(table) : table[i].device_id \in DOMAIN deviceTable}

\* `if device_id:` adds WHERE m.device_id = ?; None and 0 are both falsy.
RowsOfDevice(deviceTable, table, device_id) ==
    IF device_id = NoDeviceId \/ device_id = 0
    THEN JoinedRows(deviceTable, table)
    ELSE {i \in JoinedRows(deviceTable, table) : table[i].device_id = device_id}

\* The order of the entries of idx_timestamp and idx_device_timestamp, which
\* SQLite walks for ORDER BY m.timestamp: by timestamp, then by rowid.
IndexBefore(a, b) ==
    \/ a.timestamp < b.timestamp
    \/ a.timestamp = b.timestamp /\ a.id < b.id

\* The first entry of idx_timestamp among the rows at positions S.
FirstIndexEntry(table, S) ==
    CHOOSE i \in S : \A j \in S \ {i} : IndexBefore(table[i], table[j])

\* ORDER BY m.timestamp DESC LIMIT 1: the last entry of the index.
LastIndexEntry(table, S) ==
    CHOOSE i \in S : \A j \in S \ {i} : IndexBefore(table[j], table[i])

\* ORDER BY m.timestamp ASC: the rows at the positions S in index order.
RECURSIVE InIndexOrder(_, _)
InIndexOrder(table, S) ==
    IF S = {} THEN <<>>
    ELSE LET i == FirstIndexEntry(table, S)
         IN <<table[i]>> \o InIndexOrder(table, S \ {i})

\* get_latest_measurement(device_id): the row fetchone() returns, as a
\* sequence of one row, or none.
get_latest_measurement(deviceTable, table, device_id) ==
    LET S == RowsOfDevice(deviceTable, table, device_id)
    IN IF S = {} THEN <<>> ELSE <<table[LastIndexEntry(table, S)]>>

\* since = datetime.utcnow() - timedelta(hours=hours), bound to the query by
\* sqlite3's datetime adapter as isoformat(" "): the second, and the fraction
\* when it is not zero.
since_text(hours, now) ==
    LET since == now - hours * SECONDS_PER_HOUR * SubSec
    IN [second |-> since \div SubSec, fraction |-> since % SubSec]

\* (mutant) WHERE m.timestamp >= ?
text_not_before(timestamp, bound) == timestamp >= bound.second

\* WHERE m.timestamp > ? between two TEXT values: decided by the seconds when
\* they differ; with the seconds equal the stored text is the bound itself or
\* a prefix of it (the bound goes on with ".ffffff"), so it is not greater.
text_after(timestamp, bound) == timestamp > bound.second

\* get_historical_data(hours, device_id) at the clock reading `now`.
get_historical_data(deviceTable, table, hours, device_id, now) ==
    LET bound == since_text(hours, now)
        S == {i \in RowsOfDevice(deviceTable, table, device_id) :
                 text_after(table[i].timestamp, bound)}
    IN InIndexOrder(table, S)

\* (mutant) the range check with the upper end left out.
hours_at_least_min(hours) == hours < MIN_HOURS

\* if hours < 1 or hours > 168
hours_out_of_range(hours) == hours < MIN_HOURS \/ hours > MAX_HOURS

\* (mutant) SELECT 1 FROM devices WHERE id = ?
device_known(deviceTable, device_id) == device_id \in DOMAIN deviceTable

\* SELECT 1 FROM devices WHERE id = ? AND active = 1
device_exists(deviceTable, device_id) ==
    device_id \in DOMAIN deviceTable /\ deviceTable[device_id].active

\* The device_id checks both routes make: the status they return with, or 0
\* when the handler goes on.
device_id_status(deviceTable, device_id) ==
    IF device_id = NoDeviceId THEN 0
    ELSE IF device_id < MIN_DEVICE_ID THEN 400
    ELSE IF ~device_exists(deviceTable, device_id) THEN 404
    ELSE 0

\* api_current(device_id): the status and the body of the reply, and whether
\* get_latest_measurement was called for it.
api_current(deviceTable, table, device_id) ==
    LET status == device_id_status(deviceTable, device_id)
        data == get_latest_measurement(deviceTable, table, device_id)
    IN IF status # 0
       THEN [status |-> status, queried |-> FALSE, rows |-> <<>>]
       ELSE [status |-> IF data = <<>> THEN 404 ELSE 200, queried |-> TRUE,
             rows |-> data]

\* The checks of api_history before it reads the clock and the store: the
\* status they return with, or 0 when the handler goes on.
history_status(deviceTable, hours, device_id) ==
    IF hours_out_of_range(hours) THEN 400
    ELSE device_id_status(deviceTable, device_id)

\* api_history(hours, device_id): the status and the body of the reply, and
\* whether get_historical_data was called for it.
api_history(deviceTable, table, hours, device_id, now) ==
    LET status == history_status(deviceTable, hours, device_id)
    IN IF status # 0
       THEN [status |-> status, queried |-> FALSE, rows |-> <<>>]
       ELSE [status |-> 200, queried |-> TRUE,
             rows |-> get_historical_data(deviceTable, table, hours,
                                          device_id, now)]

\* GET /api/current and GET /api/current/<int:device_id>
ApiCurrent(device_id) ==
    /\ reply = NoReply
    /\ LET r == api_current(devices, measurements, device_id)
       IN reply' = [kind |-> "current", hours |-> 0, device_id |-> device_id,
                    now |-> 0, status |-> r.status, queried |-> r.queried,
                    rows |-> r.rows]
    /\ UNCHANGED <<registryVars, startVars, fetcherVars, measurements>>

\* GET /api/history/<int:hours> and GET /api/history/<int:hours>/<int:device_id>
ApiHistory(hours, device_id, now) ==
    /\ reply = NoReply
    /\ LET r == api_history(devices, measurements, hours, device_id, now)
       IN reply' = [kind |-> "history", hours |-> hours,
                    device_id |-> device_id, now |-> now, status |-> r.status,
                    queried |-> r.queried, rows |-> r.rows]
    /\ UNCHANGED <<registryVars, startVars, fetcherVars, measurements>>

\* ------------------------------------------------ device management

\* (mutant) SELECT COUNT(*) in place of SELECT MAX(id).
NextDeviceIdByCount(table) == Cardinality(DOMAIN table) + 1

\* max_id = SELECT MAX(id) FROM devices; device_id = (max_id or 0) + 1
NextDeviceId(table) ==
    (IF DOMAIN table = {} THEN 0 ELSE Max(DOMAIN table)) + 1

\* (mutant) the validation fetch made and its result not looked at.
AddProceedsUnchecked(provider, hasConfig, validate, force, response, device_id) ==
    provider = "airgradient" /\ hasConfig

\* add_device up to the INSERT: the provider and option checks and the
\* optional validation fetch. TRUE when the command goes on to INSERT.
AddProceeds(provider, hasConfig, validate, force, response, device_id) ==
    /\ provider = "airgradient"
    /\ hasConfig
    /\ \/ ~validate
       \/ force
       \/ LET adapter == create_device_adapter(
                             [id |-> device_id, provider |-> provider])
              data == fetch_data(adapter, response)
          IN ~adapter.raised /\ data.kind = "data"

\* add_device from its start to just before the INSERT. The id is capped at
\* MaxId.
AddCommand(p, provider, hasConfig, validate, force, response) ==
    /\ addPc[p] = "idle"
    /\ NextDeviceId(devices) <= MaxId
    /\ LET device_id == NextDeviceId(devices) IN
       IF AddProceeds(provider, hasConfig, validate, force, response, device_id)
       THEN /\ addPc' = [addPc EXCEPT ![p] = "insert"]
            /\ addId' = [addId EXCEPT ![p] = device_id]
       ELSE UNCHANGED <<addPc, addId>>
    /\ UNCHANGED <<devices, lastAdded, overtaken, startVars, fetcherVars,
                   measurements>>

AddBegin(p, provider, hasConfig, validate, force, response) ==
    /\ AddCommand(p, provider, hasConfig, validate, force, response)
    /\ UNCHANGED reply

\* The add command under observation: its flags, what the validation fetch
\* ended in (made only under --validate), and the devices table it started
\* from.
AddReport(p, validate, force, response) ==
    [kind |-> "add", process |-> p, validate |-> validate, force |-> force,
     fetched |-> validate /\ response.kind = "json", before |-> devices]

AddObserved(p, provider, hasConfig, validate, force, response) ==
    /\ AddCommand(p, provider, hasConfig, validate, force, response)
    /\ reply' = AddReport(p, validate, force, response)

\* INSERT INTO devices (id, ...) VALUES (device_id, ..., True): id is the
\* PRIMARY KEY, so a row with that id makes SQLite raise IntegrityError, which
\* add_device catches.
AddInsert(p) ==
    /\ addPc[p] = "insert"
    /\ addPc' = [addPc EXCEPT ![p] = "idle"]
    /\ addId' = [addId EXCEPT ![p] = 0]
    /\ IF addId[p] \in DOMAIN devices
       THEN /\ UNCHANGED <<devices, lastAdded>>
            /\ overtaken' = overtaken \ {p}
       ELSE /\ devices' = [d \in DOMAIN devices \cup {addId[p]} |->
                              IF d = addId[p]
                              THEN [provider |-> "airgradient", active |-> TRUE]
                              ELSE devices[d]]
            /\ lastAdded' = addId[p]
            /\ overtaken' =
                   (overtaken \ {p}) \cup
                   {q \in Adders \ {p} :
                       addPc[q] = "insert" /\ addId[q] = addId[p]}
    /\ UNCHANGED <<startVars, fetcherVars, measurements>>
    /\ UNCHANGED reply

\* remove_device: the existence check, the confirmation, then
\* DELETE FROM devices WHERE id = ?; the measurements table is not touched.
RemoveDevice(d, force, confirm) ==
    /\ IF d \in DOMAIN devices /\ (force \/ confirm)
       THEN devices' = [e \in DOMAIN devices \ {d} |-> devices[e]]
       ELSE UNCHANGED devices
    /\ UNCHANGED <<addPc, addId, lastAdded, overtaken, startVars, fetcherVars,
                   measurements>>
    /\ UNCHANGED reply

\* (mutant) deactivate_device going on to the UPDATE after a declined
\* confirmation.
DeactivateUnconfirmed(d, force, confirm) ==
    /\ IF d \in DOMAIN devices /\ devices[d].active
       THEN devices' = [devices EXCEPT ![d].active = FALSE]
       ELSE UNCHANGED devices
    /\ UNCHANGED <<addPc, addId, lastAdded, overtaken, startVars, fetcherVars,
                   measurements>>
    /\ UNCHANGED reply

\* deactivate_device: UPDATE devices SET active = 0 WHERE id = ?
DeactivateDevice(d, force, confirm) ==
    /\ IF d \in DOMAIN devices /\ devices[d].active /\ (force \/ confirm)
       THEN devices' = [devices EXCEPT ![d].active = FALSE]
       ELSE UNCHANGED devices
    /\ UNCHANGED <<addPc, addId, lastAdded, overtaken, startVars, fetcherVars,
                   measurements>>
    /\ UNCHANGED reply

\* activate_device: UPDATE devices SET active = 1 WHERE id = ?
ActivateDevice(d) ==
    /\ IF d \in DOMAIN devices /\ ~devices[d].active
       THEN devices' = [devices EXCEPT ![d].active = TRUE]
       ELSE UNCHANGED devices
    /\ UNCHANGED <<addPc, addId, lastAdded, overtaken, startVars, fetcherVars,
                   measurements>>
    /\ UNCHANGED reply

\* ------------------------------------------------------ specifications

Start == \E r \in Callers : StartCheck(r) \/ StartThread(r) \/ SetStarted(r)

\* One step of fetcher thread t.
FetcherStep(t) ==
    \/ \E registryError \in BOOLEAN : DataFetcherRead(t, registryError)
    \/ \E response \in Responses :
           \E now \in ClockReadings(response), dbError \in DbVerdicts(response) :
               DataFetcherDevice(t, response, now, dbError)
    \/ DataFetcherWake(t)

Fetcher == \E t \in Callers : FetcherStep(t)

\* The validation fetch is made only under --validate, and add_device looks
\* only at whether it returned data.
ValidationResponses(validate) ==
    IF validate THEN {r \in Responses : r.timestamp = NoTimestamp}
    ELSE {[kind |-> "timeout", timestamp |-> NoTimestamp]}

\* --validate is looked at only once the provider and its options passed.
ValidateFlags(provider, hasConfig) ==
    IF provider = "airgradient" /\ hasConfig THEN BOOLEAN ELSE {FALSE}

\* --force is looked at only when the validation fetch was made.
ForceFlags(validate) == IF validate THEN BOOLEAN ELSE {FALSE}

\* The add commands of the processes in P.
Add(P) ==
    \/ \E p \in P, provider \in Providers, hasConfig \in BOOLEAN :
          \E validate \in ValidateFlags(provider, hasConfig) :
              \E force \in ForceFlags(validate),
                 response \in ValidationResponses(validate) :
                  AddBegin(p, provider, hasConfig, validate, force, response)
    \/ \E p \in P : AddInsert(p)

\* The add commands of the processes in P, each one observed.
ObservedAdd(P) ==
    \/ \E p \in P, provider \in Providers, hasConfig \in BOOLEAN :
          \E validate \in ValidateFlags(provider, hasConfig) :
              \E force \in ForceFlags(validate),
                 response \in ValidationResponses(validate) :
                  AddObserved(p, provider, hasConfig, validate, force, response)
    \/ \E p \in P : AddInsert(p)

\* click.confirm is asked only without --force.
Confirmations(force) == IF force THEN {TRUE} ELSE BOOLEAN

Manage ==
    \/ \E d \in Ids, force \in BOOLEAN :
           \E confirm \in Confirmations(force) : RemoveDevice(d, force, confirm)
    \/ \E d \in Ids, force \in BOOLEAN :
           \E confirm \in Confirmations(force) : DeactivateDevice(d, force, confirm)
    \/ \E d \in Ids : ActivateDevice(d)

\* The process once the module is imported under gunicorn or `python app.py`
\* (lines 820-828 call start_background_thread at import), on an empty
\* database: the flag is True and one fetcher thread runs.
Init ==
    /\ devices = <<>>
    /\ measurements = <<>>
    /\ background_thread_started = TRUE
    /\ reqPc = [r \in Callers |-> "idle"]
    /\ threadsCreated = 1
    /\ fPc = [t \in Callers |-> IF t = "dashboard" THEN "top" ELSE "none"]
    /\ devs = [t \in Callers |-> <<>>]
    /\ idx = [t \in Callers |-> 1]
    /\ sleepFor = [t \in Callers |-> 0]
    /\ tickResult = [t \in Callers |-> "none"]
    /\ tickActive = [t \in Callers |-> {}]
    /\ tickStored = [t \in Callers |-> {}]
    /\ tickFailed = [t \in Callers |-> {}]
    /\ tickCalls = [t \in Callers |-> 0]
    /\ addPc = [p \in Adders |-> "idle"]
    /\ addId = [p \in Adders |-> 0]
    /\ lastAdded = 0
    /\ overtaken = {}
    /\ reply = NoReply

\* Once started, a request's start_background_thread only reads the flag.
\* CLI commands run one at a time here; RegistrySpec runs them concurrently.
Next ==
    (\E r \in Callers : StartCheck(r)) \/ Fetcher \/ Add({"add1"}) \/ Manage

\* The CLI alone on the started system's database: two add processes, each
\* command observed, and the other device commands.
ObservedCommands == ObservedAdd(Adders) \/ Manage
AddSpec == Init /\ [][ObservedCommands]_vars

\* The started system: the poller, the CLI and the requests.
Spec == Init /\ [][Next]_vars

\* The CLI alone, with two add commands running concurrently. No fetcher or
\* request thread writes the devices table, so this is all the registry
\* can do.
Commands == Add(Adders) \/ Manage

RegistrySpec == Init /\ [][Commands]_vars

\* The same, with each fetcher thread scheduled again and again and each of
\* its calls returning (requests.get has timeout=10, SQLite calls return).
LiveSpec == Spec /\ \A t \in Callers : WF_vars(FetcherStep(t))

\* A fresh process under `flask run` whose database already holds device 1,
\* registered by an earlier `flask device add`.
Registered ==
    /\ devices = (1 :> [provider |-> "airgradient", active |-> TRUE])
    /\ measurements = <<>>
    /\ background_thread_started = FALSE
    /\ reqPc = [r \in Callers |-> "idle"]
    /\ threadsCreated = 0
    /\ fPc = [t \in Callers |-> "none"]
    /\ devs = [t \in Callers |-> <<>>]
    /\ idx = [t \in Callers |-> 1]
    /\ sleepFor = [t \in Callers |-> 0]
    /\ tickResult = [t \in Callers |-> "none"]
    /\ tickActive = [t \in Callers |-> {}]
    /\ tickStored = [t \in Callers |-> {}]
    /\ tickFailed = [t \in Callers |-> {}]
    /\ tickCalls = [t \in Callers |-> 0]
    /\ addPc = [p \in Adders |-> "idle"]
    /\ addId = [p \in Adders |-> 0]
    /\ lastAdded = 1
    /\ overtaken = {}
    /\ reply = NoReply

\* Requests arriving on the server's threads while the poller runs; no CLI
\* command runs meanwhile.
Requests == Start \/ Fetcher

StartSpec == Registered /\ [][Requests]_vars

\* The devices tables the commands can leave behind: any ids, each active or
\* not; add_device admits the one provider.
DeviceTables ==
    UNION {[S -> [provider : {"airgradient"}, active : BOOLEAN]] :
               S \in SUBSET Ids}

\* The measurements tables the poller can leave behind: ids in insert order,
\* each row of any device that was ever registered (remove_device leaves the
\* rows of a removed device), stamped with any second. Ids up to MaxId have
\* all been assigned (lastAdded = MaxId).
MeasurementTables ==
    UNION {{[i \in 1..n |-> [id |-> i, device_id |-> f[i].device_id,
                             timestamp |-> f[i].timestamp]] :
                f \in [1..n -> [device_id : Ids, timestamp : Seconds]]} :
               n \in 0..MaxMeas}

\* A started process over any such database, before the request arrives.
Populated ==
    /\ devices \in DeviceTables
    /\ measurements \in MeasurementTables
    /\ background_thread_started = TRUE
    /\ reqPc = [r \in Callers |-> "idle"]
    /\ threadsCreated = 1
    /\ fPc = [t \in Callers |-> IF t = "dashboard" THEN "top" ELSE "none"]
    /\ devs = [t \in Callers |-> <<>>]
    /\ idx = [t \in Callers |-> 1]
    /\ sleepFor = [t \in Callers |-> 0]
    /\ tickResult = [t \in Callers |-> "none"]
    /\ tickActive = [t \in Callers |-> {}]
    /\ tickStored = [t \in Callers |-> {}]
    /\ tickFailed = [t \in Callers |-> {}]
    /\ tickCalls = [t \in Callers |-> 0]
    /\ addPc = [p \in Adders |-> "idle"]
    /\ addId = [p \in Adders |-> 0]
    /\ lastAdded = MaxId
    /\ overtaken = {}
    /\ reply = NoReply

\* The clock is read only by get_historical_data.
ClockOfRequest(hours, device_id) ==
    IF history_status(devices, hours, device_id) = 0 THEN QueryClock ELSE {0}

\* One request to the query facade.
Query ==
    \/ \E device_id \in DeviceArgs : ApiCurrent(device_id)
    \/ \E hours \in HourArgs, device_id \in DeviceArgs :
           \E now \in ClockOfRequest(hours, device_id) :
               ApiHistory(hours, device_id, now)

\* The query facade answering one request over a populated database.
QuerySpec == Populated /\ [][Query]_vars

\* ------------------------------------------------------------- claims

TickIds(t) == {devs[t][i].id : i \in 1..Len(devs[t])}
Attempted(t) == tickStored[t] \cup tickFailed[t]
TickEnded(t) == fPc[t] = "sleep" /\ tickResult[t] = "done"
TickHasList(t) == tickResult[t] \in {"running", "done"}
HasRowOf(d) == \E i \in 1..Len(measurements) : measurements[i].device_id = d

\* C1, first half: a tick that ended attempted every device of its list,
\* whatever happened to the others.
EveryDeviceAttempted ==
    \A t \in Callers : TickEnded(t) => Attempted(t) = TickIds(t)

\* The responses that carry a measurement store_measurement can stamp.
Measurements ==
    {r \in Responses : r.kind = "json" /\ r.timestamp.kind # "malformed"}

\* C1, second half: a pass whose fetch returned a measurement with a usable
\* timestamp, with SQLite accepting the INSERT, appends a row of that device.
FetchedIsStored ==
    \A t \in Callers :
        fPc[t] = "loop" =>
            \A response \in Measurements :
                \A now \in ClockReadings(response) :
                    DataFetcherDevice(t, response, now, FALSE)
                    => /\ Len(measurements') = Len(measurements) + 1
                       /\ measurements'[Len(measurements')].device_id =
                              devs[t][idx[t]].id
                       /\ devs[t][idx[t]].id \in tickStored'[t]

\* C1: failure isolation within a tick. After every step, a tick that has
\* ended has attempted every device of its list even when other devices of the
\* tick failed, and a device whose fetch returned a measurement has it appended
\* in that tick.
FailureIsolation == [][EveryDeviceAttempted' /\ FetchedIsStored]_vars

\* C1 witness: a tick over two devices ended; the first failed, the second's
\* reading was appended.
FailureThenStored ==
    \E t \in Callers :
        /\ TickEnded(t)
        /\ Len(devs[t]) = 2
        /\ devs[t][1].id \in tickFailed[t]
        /\ devs[t][2].id \in tickStored[t]
        /\ HasRowOf(devs[t][2].id)

\* C2: at most one data_fetcher thread is ever created in the process.
FetcherStartedAtMostOnce == threadsCreated <= 1

\* C3: ticks never overlap. At every moment at most one tick's device loop is
\* in progress in the process.
TicksNeverOverlap == Cardinality({t \in Callers : fPc[t] = "loop"}) <= 1

\* C4, safety half: however a tick ended (registry fault, empty list, every
\* device failed or not), the thread is in time.sleep for the fixed interval.
BackToIdleForFixedInterval ==
    \A t \in Callers :
        /\ fPc[t] \in {"none", "top", "loop", "sleep"}
        /\ tickResult[t] \in {"fault", "empty", "done"}
               => fPc[t] = "sleep" /\ sleepFor[t] = FETCH_INTERVAL

\* C4: a registry fault aborts only the current tick. The scheduler loop never
\* terminates, it goes back to sleeping the fixed interval, and a later tick
\* always begins; the same after an empty or an all-failed tick.
SchedulerSurvivesFaults ==
    /\ []BackToIdleForFixedInterval
    /\ \A t \in Callers : (fPc[t] # "none") ~> (fPc[t] = "top")

\* C4 witness: a thread asleep after a tick that the registry fault aborted.
AsleepAfterFault ==
    \E t \in Callers : fPc[t] = "sleep" /\ tickResult[t] = "fault"

\* The UTC wall-clock second of a provider timestamp: its local reading minus
\* its offset.
UtcSecond(ts) == (ts.local - ts.off * SubSec) \div SubSec

\* C5: timestamp normalization on append. A row stored from a measurement
\* with a provider timestamp holds that instant's UTC wall-clock second,
\* whatever the offset; one stored without holds the current UTC second.
TimestampStoredAsUtc ==
    [][\A t \in Callers, response \in Responses, now \in Ticks :
          (/\ DataFetcherDevice(t, response, now, FALSE)
           /\ Len(measurements') = Len(measurements) + 1)
          => measurements'[Len(measurements')].timestamp =
                 IF response.timestamp.kind = "iso"
                 THEN UtcSecond(response.timestamp)
                 ELSE now \div SubSec]_vars

\* C6: referential integrity. Every stored measurement's device_id is the id
\* of a row of the devices table.
MeasurementsReferenceDevices ==
    \A i \in 1..Len(measurements) : measurements[i].device_id \in DOMAIN devices

\* C7: add computes the id (maximum id in the table, or 0) + 1 and the row it
\* inserts carries that id; an add that follows a committed add, whose row is
\* still there, never gets that add's id.
AddAssignsNextId ==
    [][\A p \in Adders :
          /\ (addPc[p] = "idle" /\ addPc'[p] = "insert")
                => /\ \A d \in DOMAIN devices : addId'[p] > d
                   /\ addId'[p] = 1 \/ addId'[p] - 1 \in DOMAIN devices
                   /\ lastAdded \in DOMAIN devices => addId'[p] # lastAdded
          /\ (addPc[p] = "insert" /\ addPc'[p] = "idle" /\ devices' # devices)
                => /\ DOMAIN devices' = DOMAIN devices \cup {addId[p]}
                   /\ addId[p] \notin DOMAIN devices]_vars

\* C7 witness: two adds have run one after the other; the second got id 2.
TwoAddsInSequence == lastAdded = 2 /\ DOMAIN devices = {1, 2}

\* C8: ids are assigned monotonically over any sequence of adds and removes.
\* Each committed add inserts an id greater than the id the add before it
\* inserted, and so greater than every id an earlier add inserted.
IdsNeverReused ==
    [][\A p \in Adders :
          (addPc[p] = "insert" /\ addPc'[p] = "idle" /\ devices' # devices)
              => addId[p] > lastAdded]_vars

\* C9: the list a tick works on holds exactly the devices that were active
\* when the tick read the registry, in ascending id, and the tick attempts no
\* other device.
ActiveListExact ==
    \A t \in Callers :
        TickHasList(t) =>
            /\ TickIds(t) = tickActive[t]
            /\ \A i, j \in 1..Len(devs[t]) : i < j => devs[t][i].id < devs[t][j].id
            /\ Attempted(t) \subseteq tickActive[t]

\* C9 witness: with devices {1: active, 2: inactive} a tick has ended that
\* attempted device 1 only.
OnlyActiveAttempted ==
    \E t \in Callers :
        /\ TickEnded(t)
        /\ DOMAIN devices = {1, 2}
        /\ devices[1].active /\ ~devices[2].active
        /\ tickActive[t] = {1}
        /\ Attempted(t) = {1}

\* C10: activation changes take effect on the next tick. The list a tick
\* begins with holds a device exactly when the registry, with every commit made
\* before the tick's read, has it present and active: one deactivated before
\* is not in it, one activated or added before is. The tick attempts no device
\* outside that list and, when it ends, has attempted all of it.
ActivationTakesEffect ==
    [][\A t \in Callers :
          /\ DataFetcherRead(t, FALSE) =>
                \A d \in Ids :
                    d \in TickIds(t)' <=> (d \in DOMAIN devices /\ devices[d].active)
          /\ TickHasList(t)' => Attempted(t)' \subseteq TickIds(t)'
          /\ TickEnded(t)' => Attempted(t)' = TickIds(t)']_vars

\* C10 witness: a device that an earlier tick stored a reading of was
\* inactive when a later tick read the registry, and that tick has ended
\* without attempting it, while attempting another device.
DeactivatedThenSkipped ==
    \E t \in Callers, d \in Ids :
        /\ TickEnded(t)
        /\ d \in DOMAIN devices /\ ~devices[d].active
        /\ d \notin tickActive[t]
        /\ HasRowOf(d)
        /\ d \notin Attempted(t)
        /\ Attempted(t) # {}

\* The request of `reply` was let through to the measurement store.
Answered(kind) == reply.kind = kind /\ reply.queried

\* The positions of the stored rows a request for device_id is about: all of
\* them, or those of the device.
StoredRowsOf(device_id) ==
    {i \in 1..Len(measurements) :
        device_id = NoDeviceId \/ measurements[i].device_id = device_id}

\* The position in S of the row with the maximum timestamp, the highest id
\* among those that share it.
NewestOf(S) ==
    CHOOSE i \in S : \A j \in S :
        \/ measurements[j].timestamp < measurements[i].timestamp
        \/ /\ measurements[j].timestamp = measurements[i].timestamp
           /\ measurements[j].id <= measurements[i].id

\* C11: latest(). A current request that reaches the store, with rows stored
\* for it (any row when it names no device, a row of the device when it names
\* one), is answered with the row of maximum timestamp, the highest id among
\* ties.
LatestIsNewest ==
    Answered("current") =>
        LET S == StoredRowsOf(reply.device_id)
        IN S # {} => /\ reply.status = 200
                     /\ reply.rows = <<measurements[NewestOf(S)]>>

\* C12: window(hours, device_id). A history request that reaches the store is
\* answered with stored rows only, each stamped strictly after now - hours,
\* each of the device when one is named, in non-decreasing timestamp order.
WindowIsRecentAscending ==
    Answered("history") =>
        LET rows == reply.rows
            since == reply.now - reply.hours * SECONDS_PER_HOUR * SubSec
        IN /\ \A k \in 1..Len(rows) :
                 /\ \E i \in 1..Len(measurements) : measurements[i] = rows[k]
                 /\ rows[k].timestamp * SubSec > since
                 /\ reply.device_id # NoDeviceId
                        => rows[k].device_id = reply.device_id
           /\ \A k, l \in 1..Len(rows) :
                 k < l => rows[k].timestamp <= rows[l].timestamp

\* C12 witness: a one-hour window that left out a row stamped exactly
\* now - hours and returned a later one.
BoundaryRowExcluded ==
    /\ Answered("history")
    /\ reply.rows # <<>>
    /\ \E i \in 1..Len(measurements) :
          /\ measurements[i].device_id \in DOMAIN devices
          /\ measurements[i].timestamp * SubSec =
                 reply.now - reply.hours * SECONDS_PER_HOUR * SubSec
          /\ \A k \in 1..Len(reply.rows) : reply.rows[k] # measurements[i]

\* A request with hours outside [1, 168], or with a device_id below 1.
OutOfRange ==
    \/ reply.kind = "history" /\ (reply.hours < 1 \/ reply.hours > 168)
    \/ /\ reply.kind \in {"current", "history"}
       /\ reply.device_id # NoDeviceId /\ reply.device_id < 1

\* C13: the facade rejects out-of-range parameters before touching storage.
\* Such a request is answered 400 without a call of get_latest_measurement or
\* get_historical_data, and the hours check lets through exactly 1..168.
OutOfRangeRejected ==
    /\ OutOfRange => reply.status = 400 /\ ~reply.queried
    /\ \A h \in 0..(MAX_HOURS + 1) :
          hours_out_of_range(h) <=> ~(1 <= h /\ h <= 168)
    /\ (reply.kind = "history" /\ reply.status = 400) => OutOfRange

\* C13 witness: a history request with hours = 169 answered 400, the store
\* not read.
TooManyHoursRejected ==
    /\ reply.kind = "history" /\ reply.hours = 169
    /\ reply.status = 400 /\ ~reply.queried
    /\ measurements # <<>>

\* A request that passes the range checks and names a device that is not
\* registered, or is inactive.
NamesNoActiveDevice ==
    /\ reply.kind \in {"current", "history"}
    /\ ~OutOfRange
    /\ reply.device_id # NoDeviceId
    /\ \/ reply.device_id \notin DOMAIN devices
       \/ ~devices[reply.device_id].active

\* C14: a request whose device_id names no device, or an inactive one, is
\* answered 404, not 400, and the measurement store is not queried for it.
UnknownDeviceNotFound ==
    NamesNoActiveDevice => reply.status = 404 /\ ~reply.queried

\* C14 witness: a current request for an inactive device that has rows stored
\* was answered 404 without the store being read.
InactiveDeviceNotFound ==
    /\ reply.kind = "current" /\ reply.status = 404 /\ ~reply.queried
    /\ reply.device_id \in DOMAIN devices
    /\ ~devices[reply.device_id].active
    /\ HasRowOf(reply.device_id)

\* C15 as stated: a tick that ended called store_measurement once per device
\* of its list, however many fetches failed.
StoreCallsMatchDevices ==
    \A t \in Callers :
        (TickEnded(t) /\ TickHasList(t)) => tickCalls[t] = Len(devs[t])

\* A pass attempts the device at the loop's position, a device not attempted
\* before in the tick, and calls store_measurement once when the endpoint
\* answered with a measurement and not at all otherwise.
PassCallsStoreIfFetched ==
    \A t \in Callers :
        (fPc[t] = "loop" /\ idx'[t] # idx[t]) =>
            \A response \in Responses :
                \A now \in ClockReadings(response),
                   dbError \in DbVerdicts(response) :
                    DataFetcherDevice(t, response, now, dbError)
                    => /\ devs[t][idx[t]].id \notin Attempted(t)
                       /\ Attempted(t)' = Attempted(t) \cup {devs[t][idx[t]].id}
                       /\ tickCalls'[t] = tickCalls[t] +
                              (IF response.kind = "json" THEN 1 ELSE 0)

\* A tick that ended attempted as many devices as its list holds and called
\* store_measurement at least once per appended reading, at most once per
\* device.
CallsWithinAttempts ==
    \A t \in Callers :
        (TickEnded(t) /\ TickHasList(t)) =>
            /\ Cardinality(Attempted(t)) = Len(devs[t])
            /\ Cardinality(tickStored[t]) <= tickCalls[t]
            /\ tickCalls[t] <= Len(devs[t])

\* C15, amended: in every tick the number of device attempts equals the
\* number of devices of the tick's list, however many fetches fail, and
\* store_measurement is called once for each device whose fetch returned data
\* and not for the others.
AttemptsMatchDevices == [][PassCallsStoreIfFetched /\ CallsWithinAttempts']_vars

\* C15 witness: a tick over two devices ended with both attempted and one call
\* of store_measurement, the other device's fetch having failed.
StoreSkippedForFailedFetch ==
    \E t \in Callers :
        /\ TickEnded(t)
        /\ Len(devs[t]) = 2
        /\ Attempted(t) = TickIds(t)
        /\ tickCalls[t] = 1
        /\ Cardinality(tickStored[t]) = 1

\* C16: measurements are append-only. Every step of the poller and of every
\* command leaves each stored row in place with its id, device_id and
\* timestamp, and never shortens the table.
MeasurementsAppendOnly ==
    [][/\ Len(measurements') >= Len(measurements)
       /\ \A i \in 1..Len(measurements) : measurements'[i] = measurements[i]]_vars

\* C16 witness: two rows stored, the first one's device removed since.
RowOutlivesItsDevice ==
    /\ Len(measurements) = 2
    /\ measurements[1].id = 1
    /\ measurements[1].device_id \notin DOMAIN devices
    /\ measurements[2].device_id \in DOMAIN devices

\* The responses whose store_measurement call fails: SQLite raises on a
\* usable reading, or fromisoformat rejects the timestamp.
FailingStores ==
    {x \in [response : Responses, dbError : BOOLEAN] :
        /\ x.response.kind = "json"
        /\ x.dbError \in DbVerdicts(x.response)
        /\ x.dbError \/ x.response.timestamp.kind = "malformed"}

\* A pass whose store_measurement call fails leaves the table as it was,
\* rows appended earlier in the tick included; the thread stays in its loop,
\* or ends the tick normally after the last device; the device counts as
\* failed; and nothing else changes but the count of calls, so nothing of the
\* reading is kept for a later tick.
FailedStoreContained ==
    \A t \in Callers :
        (fPc[t] = "loop" /\ idx'[t] # idx[t] /\ measurements' = measurements) =>
            \A x \in FailingStores :
                \A now \in ClockReadings(x.response) :
                    DataFetcherDevice(t, x.response, now, x.dbError)
                    => /\ measurements' = measurements
                       /\ devs[t][idx[t]].id \in tickFailed'[t]
                       /\ tickStored'[t] = tickStored[t]
                       /\ tickResult'[t] \in {"running", "done"}
                       /\ fPc'[t] = IF idx[t] < Len(devs[t]) THEN "loop"
                                    ELSE "sleep"
                       /\ tickCalls'[t] = tickCalls[t] + 1
                       /\ UNCHANGED <<devs, tickActive, registryVars,
                                      startVars, reply>>

\* A failing call never changes the table: no input of a pass that makes
\* store_measurement fail is a step that does.
FailedStoreAddsNothing ==
    \A t \in Callers :
        (fPc[t] = "loop" /\ measurements' # measurements) =>
            \A x \in FailingStores :
                \A now \in ClockReadings(x.response) :
                    ~DataFetcherDevice(t, x.response, now, x.dbError)

\* C17: a storage error during an append is contained. The failing call
\* leaves the table unchanged, the fault stops at the per-device boundary,
\* the reading is dropped, and the other devices of the tick store on their
\* own.
StorageErrorContained == [][FailedStoreContained /\ FailedStoreAddsNothing]_vars

\* C17 witness: a tick over two devices ended with two calls of
\* store_measurement; the first device's call failed and stored nothing, the
\* second device's reading is in the table.
FailedStoreThenStored ==
    \E t \in Callers :
        /\ TickEnded(t)
        /\ Len(devs[t]) = 2
        /\ tickCalls[t] = 2
        /\ devs[t][1].id \in tickFailed[t]
        /\ devs[t][2].id \in tickStored[t]
        /\ ~HasRowOf(devs[t][1].id)
        /\ HasRowOf(devs[t][2].id)

\* A pass whose fetch returned a usable reading, with SQLite accepting the
\* INSERT, adds one row with an id no stored row has, also when a row with
\* the same device and timestamp is stored already.
AppendAddsFreshRow ==
    \A t \in Callers :
        (fPc[t] = "loop" /\ idx'[t] # idx[t]) =>
            \A response \in Measurements :
                \A now \in ClockReadings(response) :
                    DataFetcherDevice(t, response, now, FALSE)
                    => /\ measurements' # measurements
                       /\ SubSeq(measurements', 1, Len(measurements)) =
                              measurements
                       /\ Len(measurements') = Len(measurements) + 1
                       /\ \A i \in 1..Len(measurements) :
                              measurements[i].id #
                                  measurements'[Len(measurements')].id
                       /\ tickCalls'[t] = tickCalls[t] + 1

\* C19: no deduplication. Every fetch that returns a measurement and whose
\* append succeeds adds exactly one new row with a fresh id, even when the
\* reading equals a row already stored for the device.
NoDeduplication == [][AppendAddsFreshRow]_vars

\* C19 witness: two rows of one device with the same timestamp and different
\* ids.
IdenticalReadingStoredTwice ==
    /\ Len(measurements) = 2
    /\ measurements[1].device_id = measurements[2].device_id
    /\ measurements[1].timestamp = measurements[2].timestamp
    /\ measurements[1].id # measurements[2].id

\* A pass attempts the device at the loop's position: one not attempted
\* before in the tick, with an id above those attempted before it.
AttemptsAscend ==
    \A t \in Callers :
        (fPc[t] = "loop" /\ idx'[t] # idx[t]) =>
            LET d == devs[t][idx[t]].id
            IN /\ d \notin Attempted(t)
               /\ \A e \in Attempted(t) : e < d
               /\ Attempted(t)' = Attempted(t) \cup {d}

\* While a tick is in progress no step changes its list, and a step that is
\* no pass of the tick (a registry command among them) changes nothing of
\* what it attempted.
TickListFixed ==
    \A t \in Callers :
        fPc[t] = "loop" =>
            /\ devs'[t] = devs[t]
            /\ idx'[t] = idx[t] => Attempted(t)' = Attempted(t)

\* A tick that ended attempted the devices of the list it read, which are the
\* devices active at the read.
AttemptedWhatWasRead ==
    \A t \in Callers :
        TickEnded(t) => Attempted(t) = TickIds(t) /\ TickIds(t) = tickActive[t]

\* C20: within a tick each device of the list read at its start is attempted
\* exactly once, in ascending id order, whatever the registry commands
\* committed while the tick is in progress.
SnapshotInIdOrder ==
    [][AttemptsAscend /\ TickListFixed /\ AttemptedWhatWasRead']_vars

\* C20 witness: a tick over two devices has attempted the first; the second
\* was removed or deactivated since the tick read its list and is still the
\* next to be attempted.
ListOutlivesRegistryChange ==
    \E t \in Callers :
        /\ fPc[t] = "loop"
        /\ Len(devs[t]) = 2 /\ idx[t] = 2
        /\ Attempted(t) = {devs[t][1].id}
        /\ devs[t][1].id < devs[t][2].id
        /\ \/ devs[t][2].id \notin DOMAIN devices
           \/ ~devices[devs[t][2].id].active

\* The step is an add command with validation requested, and `reply'` is its
\* report.
ValidatedAddStep ==
    /\ reply' # reply
    /\ reply'.kind = "add"
    /\ reply'.validate

\* An add command with validation requested goes on to the INSERT exactly
\* when the validation fetch returned data or --force was given; up to there
\* it writes nothing, and when it does not go on it leaves the registry and
\* the command's own state as they were.
ValidatedAddProceedsIfFetched ==
    ValidatedAddStep =>
        LET p == reply'.process
        IN /\ addPc[p] = "idle"
           /\ devices' = devices /\ lastAdded' = lastAdded
           /\ addPc'[p] = "insert" <=> (reply'.fetched \/ reply'.force)
           /\ addPc'[p] # "insert" => UNCHANGED registryVars

\* A device row appears only through the INSERT of a command that went on to
\* it, under the id the command computed.
RowsOnlyFromInsert ==
    \A d \in DOMAIN devices' \ DOMAIN devices :
        \E p \in Adders : addPc[p] = "insert" /\ addId[p] = d

\* C18: add with validation requested. If the validation fetch returns no
\* data or raises and force is not given, no device row is inserted and the
\* registry is unchanged; the row is inserted only if the fetch returned data
\* or force was given.
ValidationGuardsInsert ==
    [][ValidatedAddProceedsIfFetched /\ RowsOnlyFromInsert]_vars

\* C18 witness: the last add command asked for validation without --force,
\* its fetch returned no data, and it ended with the devices table as it
\* found it, after an earlier add had registered a device.
AddRejectedByValidation ==
    /\ reply.kind = "add"
    /\ reply.validate /\ ~reply.fetched /\ ~reply.force
    /\ addPc[reply.process] = "idle"
    /\ devices = reply.before
    /\ devices # <<>>

\* Everything of the state but the devices table.
othersThanDevices ==
    <<measurements, addPc, addId, lastAdded, overtaken, startVars, fetcherVars,
      reply>>

\* The table differs from `before` in the active flag of device d, which is
\* now `flag`, and in nothing else: the same ids, every other row as it was,
\* the device's provider as it was.
OnlyFlagSet(before, after, d, flag) ==
    /\ DOMAIN after = DOMAIN before
    /\ d \in DOMAIN before
    /\ after[d].active = flag
    /\ after[d].provider = before[d].provider
    /\ \A e \in DOMAIN before \ {d} : after[e] = before[e]

\* A deactivate command either changes nothing at all (no such id, already
\* inactive, confirmation declined) or clears the flag of its device, which
\* was active, and nothing else.
DeactivateFrame ==
    \A d \in Ids, force, confirm \in BOOLEAN :
        DeactivateDevice(d, force, confirm) =>
            IF d \in DOMAIN devices /\ devices[d].active /\ (force \/ confirm)
            THEN /\ OnlyFlagSet(devices, devices', d, FALSE)
                 /\ UNCHANGED othersThanDevices
            ELSE UNCHANGED vars

\* An activate command either changes nothing at all (no such id, already
\* active) or sets the flag of its device, which was inactive, and nothing
\* else.
ActivateFrame ==
    \A d \in Ids :
        ActivateDevice(d) =>
            IF d \in DOMAIN devices /\ ~devices[d].active
            THEN /\ OnlyFlagSet(devices, devices', d, TRUE)
                 /\ UNCHANGED othersThanDevices
            ELSE UNCHANGED vars

\* C21: activate and deactivate change nothing but the active flag of the
\* target device; every other device row, the target's other columns and all
\* measurement rows stay, and a command for an unknown id, for a device
\* already in the requested state, or with the confirmation declined changes
\* nothing.
FlagCommandsFrame ==
    [][(devices' # devices) => (DeactivateFrame /\ ActivateFrame)]_vars

\* C21 witness: a device with a stored row is inactive, its row still there,
\* next to another device that is active.
HistoryKeptOnDeactivation ==
    \E d, e \in DOMAIN devices :
        /\ d # e
        /\ ~devices[d].active /\ HasRowOf(d)
        /\ devices[e].active

\* The list of all device rows holds no id twice.
DeviceIdsDistinct ==
    LET ids == OrderById(DOMAIN devices)
    IN /\ Len(ids) = Cardinality(DOMAIN devices)
       /\ \A i, j \in 1..Len(ids) : ids[i] = ids[j] => i = j

\* The INSERT of an add whose id is in the table fails: the row that is
\* there stays as it is and no row is added.
LosingInsertChangesNothing ==
    [][\A p \in Adders :
          (addPc[p] = "insert" /\ addId[p] \in DOMAIN devices /\ AddInsert(p))
          => devices' = devices /\ lastAdded' = lastAdded]_vars

\* C22: at most one device row per id under concurrency. When two adds have
\* computed the same id and one of them has inserted its row, the INSERT of
\* the other fails and changes no device row, and the ids of the table are
\* pairwise distinct.
OneInsertPerComputedId ==
    [][/\ \A p \in Adders :
            (p \in overtaken /\ AddInsert(p)) => devices' = devices
       /\ DeviceIdsDistinct']_vars

====
